---- MODULE Spec2Model ----
(***************************************************************************)
(* UnwrittenAR: the capture-session engine.                                *)
(*                                                                         *)
(*  - the unified audio/video recorder component (AudioRecorder with       *)
(*    pause/resume and mode selection): start / pause / resume / stop /    *)
(*    resetRecording / unmount cleanup, together with the browser objects  *)
(*    it drives (MediaStream tracks, MediaRecorder, interval timer);       *)
(*  - the QR recognition loop of App (the SCAN effect): acquisition,       *)
(*    requestAnimationFrame loop, redirect timeout, effect cleanup;        *)
(*  - the cloud function ingestMyWebAR: validation of the request, the     *)
(*    HEAD probe of the url and the write to the experiences collection.   *)
(*                                                                         *)
(* Every await of the source is a step boundary: the code between two      *)
(* awaits is one atomic action, and a callback (timer tick, MediaRecorder  *)
(* event, animation frame, timeout) is one action.                         *)
(***************************************************************************)
EXTENDS Integers, Sequences, FiniteSets, TLC

\* ------------------------------------------------------------------ bounds
MaxStarts == 2      \* start() invocations of one mounted recorder
MaxChunks == 1      \* non-empty timeslice chunks per MediaRecorder
MaxSeconds == 2     \* cap of the seconds counter
MaxScans == 2       \* activations of the SCAN effect
MaxSaves == 2       \* clicks on "Save to Room"
MaxRequests == 2    \* requests ingestMyWebAR receives

Sessions == 1..MaxStarts
Modes == {"audio", "video"}
Scans == 1..MaxScans
Requests == 1..MaxRequests
Payloads == {"urlA", "urlB"}    \* what jsQR can decode from a frame

\* The formats a runtime may report through MediaRecorder.isTypeSupported:
\* the ones pickMimeType asks about, and one it never asks about.
MimeTypes == {"video/webm;codecs=vp9,opus", "video/webm;codecs=vp8,opus",
              "video/webm", "audio/webm;codecs=opus", "audio/webm",
              "audio/mp4"}
\* A runtime: whether window.MediaRecorder exists, whether it has the static
\* method isTypeSupported, and the formats that method answers true for.
AllRuntimes == [MediaRecorder : BOOLEAN, isTypeSupported : BOOLEAN,
                supported : SUBSET MimeTypes]
\* The runtimes the recorder is run on: one that supports every WebM format
\* and one that supports none of them.
Runtimes == {[MediaRecorder |-> TRUE, isTypeSupported |-> TRUE,
              supported |-> MimeTypes \ {"audio/mp4"}],
             [MediaRecorder |-> TRUE, isTypeSupported |-> TRUE,
              supported |-> {"audio/mp4"}]}

VARIABLES
    \* ---- recorder component (one mounted instance)
    c,            \* React state and refs of the component
    nstart,       \* number of start() invocations so far
    pc,           \* pc[s]: where invocation s of start() is
    cmode,        \* cmode[s]: `mode` captured by the closure of invocation s
    cIsPaused,    \* cIsPaused[s]: `isPaused` captured by the closure of s
    track,        \* track[s]: tracks of the stream acquired by s
    mr,           \* mr[s]: state of the MediaRecorder constructed by s
    mrStopping,   \* mr[s].stop() was called, its dataavailable+stop task is queued
    timer,        \* timer[s]: the interval created by s is running
    alerts,       \* alerts[s]: alert() calls made by invocation s
    \* ---- history (not read by the program)
    delivered,    \* delivered[s]: non-empty chunks mr[s] delivered, in order
    artifacts,    \* artifacts[s]: Blobs built by the onstop handler of mr[s]
    recTicks,     \* ticks fired while the current session was Recording
    pendingAtUnmount,  \* invocations still awaiting getUserMedia at unmount
    \* ---- App: the SCAN effect
    app,          \* screen, cameraAllowed, the refs and the mounted SCAN view
    nscan,        \* number of activations of the SCAN effect so far
    apc,          \* apc[a]: where activation a is
    atrack,       \* atrack[a]: tracks of the stream acquired by a
    raf,          \* raf[a]: an animation frame requested by a's loop is pending
    timeout,      \* timeout[a]: the redirect timeout of a is pending, its payload
    redirects,    \* redirects[a]: payloads a assigned to window.location.href
    \* ---- history (not read by the program)
    found,        \* found[a]: the payload a's loop decoded
    cancelledIn,  \* cancelledIn[a]: where a was when its cleanup ran
    \* ---- the browser
    runtime,      \* what window.MediaRecorder is on this browser
    picked,       \* the calls of pickMimeType made directly: kind and result
    \* ---- recorder component: save
    saving,       \* React state `saving`
    sv,           \* the save() invocation in flight: its await and its isVideo
    nsave,        \* number of save() invocations so far
    \* ---- history (not read by the program)
    sunk,         \* what was handed to storage: the Blob and the kind of its path
    dones,        \* number of onDone calls
    saveAlerts,   \* number of "Failed to save" alerts
    \* ---- cloud function ingestMyWebAR
    req,          \* req[r]: method and body of request r (<<>> before it arrives)
    fpc,          \* fpc[r]: where the handler of request r is
    res,          \* res[r]: the status of the response sent to r (0: none yet)
    experiences,  \* the documents of the "experiences" collection
    \* ---- history (not read by the program)
    probe,        \* probe[r]: how the HEAD request of r ended
    wrote         \* wrote[r]: documents the handler of r added

recVars == <<c, nstart, pc, cmode, cIsPaused, track, mr, mrStopping, timer,
             alerts>>
histVars == <<delivered, artifacts, recTicks, pendingAtUnmount>>
scanVars == <<app, nscan, apc, atrack, raf, timeout, redirects>>
scanHist == <<found, cancelledIn>>
recAll == <<recVars, histVars>>
scanAll == <<scanVars, scanHist>>
envVars == <<runtime, picked>>
saveVars == <<saving, sv, nsave, sunk, dones, saveAlerts>>
ingestVars == <<req, fpc, res, experiences, probe, wrote>>
vars == <<recAll, scanAll, envVars, saveVars, ingestVars>>

\* ------------------------------------------------------------ pure helpers
RECURSIVE Concat(_)
\* new Blob(parts): the parts' bytes, in order.
Concat(parts) ==
    IF parts = <<>> THEN <<>> ELSE Head(parts) \o Concat(Tail(parts))

Blob(parts, type) == [type |-> type, data |-> Concat(parts)]

clearInterval(timers, id) ==
    IF id = 0 THEN timers ELSE [timers EXCEPT ![id] = FALSE]

\* A release that is not confined to its own stream: it stops the tracks of
\* every stream that was acquired.
stopTracksOfAll(tracks, s) ==
    [r \in DOMAIN tracks |-> IF tracks[r] = "none" THEN "none" ELSE "ended"]

\* stream.getTracks().forEach((t) => t.stop()); stop() on an ended track
\* does nothing.
stopTracks(tracks, s) == [tracks EXCEPT ![s] = "ended"]

\* The recorder and its browser objects as one value; Put writes it back
\* (no recorder step touches the scanner).
H == [c |-> c, nstart |-> nstart, pc |-> pc, cmode |-> cmode,
      cIsPaused |-> cIsPaused, track |-> track, mr |-> mr,
      mrStopping |-> mrStopping, timer |-> timer, alerts |-> alerts]

PutRec(h) ==
    /\ c' = h.c
    /\ nstart' = h.nstart
    /\ pc' = h.pc
    /\ cmode' = h.cmode
    /\ cIsPaused' = h.cIsPaused
    /\ track' = h.track
    /\ mr' = h.mr
    /\ mrStopping' = h.mrStopping
    /\ timer' = h.timer
    /\ alerts' = h.alerts

\* A step of the recorder that is not part of save().
Put(h) == PutRec(h) /\ UNCHANGED <<scanAll, envVars, saveVars, ingestVars>>

\* liveVideoRef.current: the preview element is rendered only while
\* isRecording && mode === "video".
liveVideoRef(h) == h.c.mounted /\ h.c.isRecording /\ h.c.mode = "video"

\* ------------------------------------------------------- codec negotiation
\* The ordered candidates of pickMimeType for a kind.
candidates(kind) ==
    IF kind = "video"
    THEN <<"video/webm;codecs=vp9,opus", "video/webm;codecs=vp8,opus",
           "video/webm">>
    ELSE <<"audio/webm;codecs=opus", "audio/webm">>

\* window.MediaRecorder && MediaRecorder.isTypeSupported?.(t)
isTypeSupported(rt, t) ==
    rt.MediaRecorder /\ rt.isTypeSupported /\ t \in rt.supported

RECURSIVE pickLast(_, _)
\* The loop without its early return: the last supported candidate wins.
pickLast(cands, rt) ==
    IF cands = <<>> THEN "undefined"
    ELSE LET rest == pickLast(Tail(cands), rt)
         IN IF rest # "undefined" THEN rest
            ELSE IF isTypeSupported(rt, Head(cands)) THEN Head(cands)
            ELSE "undefined"

RECURSIVE pickFrom(_, _)
\* for (const t of candidates) { if (...) return t; } return undefined;
pickFrom(cands, rt) ==
    IF cands = <<>> THEN "undefined"
    ELSE IF isTypeSupported(rt, Head(cands)) THEN Head(cands)
    ELSE pickFrom(Tail(cands), rt)

pickMimeType(kind, rt) == pickFrom(candidates(kind), rt)

\* ------------------------------------------------------- recorder handlers
resetRecording(h) ==
    [h EXCEPT !.c.blob = <<>>, !.c.seconds = 0, !.c.isPaused = FALSE]

\* start(), up to `await getUserMedia`.
startCall(h) ==
    LET s == h.nstart + 1
        h1 == resetRecording(h)
    IN [h1 EXCEPT !.nstart = s,
                  !.pc[s] = "gum",
                  !.cmode[s] = h.c.mode,
                  !.cIsPaused[s] = h.c.isPaused]

\* catch (e) { alert(...) }
startCatch(h, s) == [h EXCEPT !.alerts[s] = @ + 1, !.pc[s] = "failed"]

\* start() that carries the previous session's buffer and counter over:
\* neither `chunksRef.current = []` nor `setSeconds(0)` is executed.
startTailNoReset(h, s, outcome) ==
    IF outcome = "ctorThrow" THEN startCatch(h, s)
    ELSE
      LET h1 == [h EXCEPT !.mr[s] = "inactive"]
      IN IF outcome = "startThrow" \/ h1.track[s] # "live"
         THEN startCatch(h1, s)
         ELSE
           LET h2 == [h1 EXCEPT !.mr[s] = "recording",
                                !.c.mediaRecorderRef = s]
               h3 == IF h2.c.mounted
                     THEN [h2 EXCEPT !.c.isRecording = TRUE,
                                     !.c.isPaused = FALSE]
                     ELSE h2
           IN [h3 EXCEPT !.c.timerRef = s, !.timer[s] = TRUE,
                         !.pc[s] = "done"]

\* start(), from `pickMimeType` to the end.  outcome: "ok", or the statement
\* that throws.  MediaRecorder.start() throws on a stream with no live track.
startTail(h, s, outcome) ==
    IF outcome = "ctorThrow" THEN startCatch(h, s)
    ELSE
      LET h1 == [h EXCEPT !.mr[s] = "inactive", !.c.chunksRef = <<>>]
      IN IF outcome = "startThrow" \/ h1.track[s] # "live"
         THEN startCatch(h1, s)
         ELSE
           LET h2 == [h1 EXCEPT !.mr[s] = "recording",
                                !.c.mediaRecorderRef = s]
               h3 == IF h2.c.mounted
                     THEN [h2 EXCEPT !.c.isRecording = TRUE,
                                     !.c.isPaused = FALSE,
                                     !.c.seconds = 0]
                     ELSE h2
           IN [h3 EXCEPT !.c.timerRef = s, !.timer[s] = TRUE,
                         !.pc[s] = "done"]

\* getUserMedia resolved: streamRef.current = stream, then either the
\* preview's play() is awaited or the rest of start() runs.
startAcquired(h, s, outcome) ==
    LET h1 == [h EXCEPT !.track[s] = "live", !.c.streamRef = s]
    IN IF h.cmode[s] = "video" /\ liveVideoRef(h)
       THEN [h1 EXCEPT !.pc[s] = "play"]
       ELSE startTail(h1, s, outcome)

\* setInterval callback of invocation s.
tick(h, s) ==
    IF h.c.mounted
    THEN [h EXCEPT !.c.seconds = IF h.cIsPaused[s] THEN @ ELSE @ + 1]
    ELSE h

\* pause() that also releases the device: the tracks of the held stream are
\* stopped and the handle is dropped.
pauseReleasing(h) ==
    LET cur == h.c.mediaRecorderRef
    IN IF cur = 0 THEN h
       ELSE IF h.mr[cur] = "recording"
            THEN [h EXCEPT !.mr[cur] = "paused", !.c.isPaused = TRUE,
                           !.track = IF h.c.streamRef # 0
                                     THEN stopTracks(@, h.c.streamRef) ELSE @,
                           !.c.streamRef = 0]
            ELSE h

pause(h) ==
    LET cur == h.c.mediaRecorderRef
    IN IF cur = 0 THEN h
       ELSE IF h.mr[cur] = "recording"
            THEN [h EXCEPT !.mr[cur] = "paused", !.c.isPaused = TRUE]
            ELSE h

resume(h) ==
    LET cur == h.c.mediaRecorderRef
    IN IF cur = 0 THEN h
       ELSE IF h.mr[cur] = "paused"
            THEN [h EXCEPT !.mr[cur] = "recording", !.c.isPaused = FALSE]
            ELSE h

\* A MediaRecorder.stop() that fires no events: the recorder becomes
\* inactive and neither dataavailable nor stop is dispatched.
mrStopNoTask(h, s) ==
    IF h.mr[s] \in {"recording", "paused"}
    THEN [h EXCEPT !.mr[s] = "inactive"]
    ELSE h

\* MediaRecorder.stop(): InvalidStateError when inactive; otherwise the
\* recorder becomes inactive and a task is queued that fires dataavailable
\* with the gathered data and then stop.
mrStop(h, s) ==
    IF h.mr[s] \in {"recording", "paused"}
    THEN [h EXCEPT !.mr[s] = "inactive", !.mrStopping[s] = TRUE]
    ELSE h

\* stop() raises (after its finally block ran) when mr.stop() throws.
stopRaises(h) ==
    /\ h.c.mediaRecorderRef # 0
    /\ h.c.isRecording
    /\ h.mr[h.c.mediaRecorderRef] = "inactive"

\* pause() raises nothing and reports nothing: it returns when there is no
\* MediaRecorder, and calls mr.pause() only on a recording one.
pauseRaises(h) == FALSE

\* resume() raises nothing and reports nothing: it returns when there is no
\* MediaRecorder, and calls mr.resume() only on a paused one.
resumeRaises(h) == FALSE

stop(h) ==
    LET cur == h.c.mediaRecorderRef
        h1 == IF cur # 0 /\ h.c.isRecording THEN mrStop(h, cur) ELSE h
        h2 == [h1 EXCEPT !.c.isRecording = FALSE,
                         !.c.isPaused = FALSE,
                         !.timer = clearInterval(@, h1.c.timerRef),
                         !.c.timerRef = 0]
    IN IF h2.c.streamRef # 0
       THEN [h2 EXCEPT !.track = stopTracks(@, h2.c.streamRef),
                       !.c.streamRef = 0]
       ELSE h2

\* The cleanup of the mount effect.
cleanup(h) ==
    LET cur == h.c.mediaRecorderRef
        h1 == [h EXCEPT !.timer = clearInterval(@, h.c.timerRef)]
        h2 == IF cur # 0 /\ h1.mr[cur] # "inactive" THEN mrStop(h1, cur) ELSE h1
        h3 == IF h2.c.streamRef # 0
              THEN [h2 EXCEPT !.track = stopTracks(@, h2.c.streamRef)]
              ELSE h2
    IN [h3 EXCEPT !.c.mounted = FALSE]

\* A handler that pushes whatever the event carries.
ondataavailablePushAll(h, data) == [h EXCEPT !.c.chunksRef = Append(@, data)]

\* mr.ondataavailable
ondataavailable(h, data) ==
    IF Len(data) > 0 THEN [h EXCEPT !.c.chunksRef = Append(@, data)] ELSE h

\* The Blob mr.onstop of invocation s builds.
onstopBlob(h, s) ==
    Blob(h.c.chunksRef, IF h.cmode[s] = "video" THEN "video/webm" ELSE "audio/webm")

\* mr.onstop
onstop(h, s) ==
    IF h.c.mounted THEN [h EXCEPT !.c.blob = <<onstopBlob(h, s)>>] ELSE h

\* ------------------------------------------------------------------ save
\* The save() side of the recorder as one value; PutSave writes it back.
S == [saving |-> saving, sv |-> sv, nsave |-> nsave, sunk |-> sunk,
      dones |-> dones, saveAlerts |-> saveAlerts]

PutSave(x) ==
    /\ saving' = x.saving
    /\ sv' = x.sv
    /\ nsave' = x.nsave
    /\ sunk' = x.sunk
    /\ dones' = x.dones
    /\ saveAlerts' = x.saveAlerts

\* blob.type.startsWith("video")
startsWithVideo(type) ==
    type \in {"video/webm;codecs=vp9,opus", "video/webm;codecs=vp8,opus",
              "video/webm"}

\* save(), up to `await uploadBytes(storageRef, blob)`: the Blob goes to the
\* path rooms/<roomId>/<videos|audio>/...
saveCall(x, comp) ==
    IF comp.blob = <<>> THEN x
    ELSE LET isVideo == comp.mode = "video"
                          /\ startsWithVideo(comp.blob[1].type)
         IN [x EXCEPT !.saving = TRUE,
                      !.nsave = @ + 1,
                      !.sv = [pc |-> "upload", isVideo |-> isVideo],
                      !.sunk = @ \cup {[blob |-> comp.blob[1],
                                        kind |-> IF isVideo THEN "video"
                                                 ELSE "audio"]}]

\* finally { setSaving(false) }
saveFinally(x, mounted) ==
    [x EXCEPT !.saving = IF mounted THEN FALSE ELSE @, !.sv.pc = "idle"]

\* A catch with no finally after it: the failure is reported and the saving
\* flag is left as it is.
saveCatchNoFinally(x, mounted) ==
    [x EXCEPT !.saveAlerts = @ + 1, !.sv.pc = "idle"]

\* catch (e) { alert("Failed to save: ...") } finally { ... }
saveCatch(x, mounted) ==
    saveFinally([x EXCEPT !.saveAlerts = @ + 1], mounted)

\* onDone?.({ type, url }), then the finally block.
saveSucceeded(x, mounted) ==
    saveFinally([x EXCEPT !.dones = @ + 1], mounted)

\* ------------------------------------------------------ the SCAN effect
\* The App with the browser objects of its scanner as one value; PutA writes
\* it back (no scanner step touches the recorder).
A == [app |-> app, nscan |-> nscan, apc |-> apc, atrack |-> atrack,
      raf |-> raf, timeout |-> timeout, redirects |-> redirects]

PutA(x) ==
    /\ app' = x.app
    /\ nscan' = x.nscan
    /\ apc' = x.apc
    /\ atrack' = x.atrack
    /\ raf' = x.raf
    /\ timeout' = x.timeout
    /\ redirects' = x.redirects
    /\ UNCHANGED <<recAll, envVars, saveVars, ingestVars>>

\* cancelAnimationFrame(rafRef.current): rafRef holds the id of the request
\* made last, by whichever activation; a request that already ran is not
\* affected.
cancelAnimationFrame(x) ==
    IF x.app.rafRef = 0 THEN x ELSE [x EXCEPT !.raf[x.app.rafRef] = FALSE]

\* rafRef.current = requestAnimationFrame(loop), by activation a.
requestAnimationFrame(x, a) ==
    [x EXCEPT !.raf[a] = TRUE, !.app.rafRef = a]

\* setScreen(SCAN): the effect runs start(), up to `await getUserMedia`.
scanStart(x) ==
    LET a == x.nscan + 1
    IN [x EXCEPT !.app.screen = "SCAN", !.nscan = a, !.apc[a] = "gum"]

\* catch { setCameraAllowed(false) }
scanCatch(x, a) ==
    [x EXCEPT !.app.cameraAllowed = FALSE, !.apc[a] = "ended"]

\* getUserMedia resolved: streamRef.current = stream; return when the video
\* element is not mounted, else srcObject = stream and `await play()`.
scanAcquired(x, a) ==
    LET x1 == [x EXCEPT !.atrack[a] = "live", !.app.streamRef = a]
    IN IF ~x1.app.view
       THEN [x1 EXCEPT !.apc[a] = "ended"]
       ELSE [x1 EXCEPT !.apc[a] = "play"]

\* play() resolved: setCameraAllowed(true) and the first frame is requested.
scanPlaying(x, a) ==
    requestAnimationFrame(
        [x EXCEPT !.app.cameraAllowed = TRUE, !.apc[a] = "loop"], a)

\* The branch of loop taken when jsQR returned a code with data.
loopFound(x, a, data) ==
    LET x1 == [x EXCEPT !.atrack[a] = "ended"]
        x2 == cancelAnimationFrame(x1)
    IN [x2 EXCEPT !.timeout[a] = <<data>>, !.apc[a] = "found"]

\* loop with the `return` of its success branch missing: the next frame is
\* requested after a decode as well.
loopNoReturn(x, a, result) ==
    LET x0 == [x EXCEPT !.raf[a] = FALSE]
    IN IF x0.app.view
       THEN IF result = "throw" THEN [x0 EXCEPT !.apc[a] = "ended"]
            ELSE IF result \in Payloads
                 THEN requestAnimationFrame(loopFound(x0, a, result), a)
            ELSE requestAnimationFrame(x0, a)
       ELSE requestAnimationFrame(x0, a)

\* One run of loop, as the animation-frame callback of activation a.
\* result: what drawing and decoding the frame gave: "none", "throw" or the
\* decoded data.
loop(x, a, result) ==
    LET x0 == [x EXCEPT !.raf[a] = FALSE]
    IN IF x0.app.view
       THEN IF result = "throw" THEN [x0 EXCEPT !.apc[a] = "ended"]
            ELSE IF result \in Payloads THEN loopFound(x0, a, result)
            ELSE requestAnimationFrame(x0, a)
       ELSE requestAnimationFrame(x0, a)

\* The timeout set by loop: window.location.href = code.data.
redirect(x, a) ==
    [x EXCEPT !.redirects[a] = @ \o x.timeout[a], !.timeout[a] = <<>>]

\* The camera badge of the SCAN card.
cameraBadge(x) ==
    IF x.app.cameraAllowed THEN "Camera: Allowed" ELSE "Camera: Requesting"

\* The cleanup of the SCAN effect, run when the screen leaves SCAN.
scanCleanup(x) ==
    LET x1 == cancelAnimationFrame(x)
    IN IF x1.app.streamRef # 0
       THEN [x1 EXCEPT !.atrack[x1.app.streamRef] = "ended"]
       ELSE x1

\* ------------------------------------------------------------------- Init
\* The state and refs of the recorder component at its first render.
firstRender ==
    [mounted |-> TRUE, mode |-> "audio", isRecording |-> FALSE,
     isPaused |-> FALSE, seconds |-> 0, blob |-> <<>>,
     mediaRecorderRef |-> 0, chunksRef |-> <<>>, streamRef |-> 0,
     timerRef |-> 0]

\* Everything but the recorder component: nothing was started yet and the
\* App shows HOME.
InitRest ==
    /\ nstart = 0
    /\ pc = [s \in Sessions |-> "idle"]
    /\ cmode = [s \in Sessions |-> "audio"]
    /\ cIsPaused = [s \in Sessions |-> FALSE]
    /\ track = [s \in Sessions |-> "none"]
    /\ mr = [s \in Sessions |-> "none"]
    /\ mrStopping = [s \in Sessions |-> FALSE]
    /\ timer = [s \in Sessions |-> FALSE]
    /\ alerts = [s \in Sessions |-> 0]
    /\ delivered = [s \in Sessions |-> <<>>]
    /\ artifacts = [s \in Sessions |-> <<>>]
    /\ recTicks = 0
    /\ pendingAtUnmount = {}
    /\ app = [screen |-> "HOME", cameraAllowed |-> FALSE, view |-> FALSE,
              streamRef |-> 0, rafRef |-> 0]
    /\ nscan = 0
    /\ apc = [a \in Scans |-> "idle"]
    /\ atrack = [a \in Scans |-> "none"]
    /\ raf = [a \in Scans |-> FALSE]
    /\ timeout = [a \in Scans |-> <<>>]
    /\ redirects = [a \in Scans |-> <<>>]
    /\ found = [a \in Scans |-> <<>>]
    /\ cancelledIn = [a \in Scans |-> "no"]
    /\ picked = <<>>
    /\ saving = FALSE
    /\ sv = [pc |-> "idle", isVideo |-> FALSE]
    /\ nsave = 0
    /\ sunk = {}
    /\ dones = 0
    /\ saveAlerts = 0
    /\ req = [r \in Requests |-> <<>>]
    /\ fpc = [r \in Requests |-> "idle"]
    /\ res = [r \in Requests |-> 0]
    /\ experiences = {}
    /\ probe = [r \in Requests |-> "none"]
    /\ wrote = [r \in Requests |-> 0]

\* The recorder and the App after their first render.
InitProgram == c = firstRender /\ InitRest

Init == InitProgram /\ runtime \in Runtimes

\* ------------------------------------------------------- recorder actions
\* The data of a dataavailable event of mr[s]: empty, or one byte that names
\* the recorder and the position of the chunk among its non-empty chunks.
ChunkData(s) == {<<>>, << <<s, Len(delivered[s]) + 1>> >>}

\* "Start ... Recording" button: rendered while !isRecording && !blobUrl.
Start ==
    /\ c.mounted /\ ~c.isRecording /\ c.blob = <<>>
    /\ nstart < MaxStarts
    /\ Put(startCall(H))
    /\ UNCHANGED histVars

GumResolve(s) ==
    /\ pc[s] = "gum"
    /\ \E outcome \in {"ok", "ctorThrow", "startThrow"} :
          Put(startAcquired(H, s, outcome))
    /\ recTicks' = IF c'.mediaRecorderRef # c.mediaRecorderRef THEN 0 ELSE recTicks
    /\ UNCHANGED <<delivered, artifacts, pendingAtUnmount>>

GumReject(s) ==
    /\ pc[s] = "gum"
    /\ Put(startCatch(H, s))
    /\ UNCHANGED histVars

\* liveVideoRef.current.play() settled (a rejection is caught and ignored).
PlaySettled(s) ==
    /\ pc[s] = "play"
    /\ \E outcome \in {"ok", "ctorThrow", "startThrow"} :
          Put(startTail(H, s, outcome))
    /\ recTicks' = IF c'.mediaRecorderRef # c.mediaRecorderRef THEN 0 ELSE recTicks
    /\ UNCHANGED <<delivered, artifacts, pendingAtUnmount>>

Tick(s) ==
    /\ timer[s]
    /\ c.seconds < MaxSeconds
    /\ Put(tick(H, s))
    /\ recTicks' = IF c.mounted /\ c.isRecording /\ ~c.isPaused
                    THEN recTicks + 1 ELSE recTicks
    /\ UNCHANGED <<delivered, artifacts, pendingAtUnmount>>

\* Pause button: rendered while isRecording && !isPaused.
Pause ==
    /\ c.mounted /\ c.isRecording /\ ~c.isPaused
    /\ Put(pause(H))
    /\ UNCHANGED histVars

\* Resume button: rendered while isRecording && isPaused.
Resume ==
    /\ c.mounted /\ c.isRecording /\ c.isPaused
    /\ Put(resume(H))
    /\ UNCHANGED histVars

\* Stop button: rendered while isRecording.
Stop ==
    /\ c.mounted /\ c.isRecording
    /\ Put(stop(H))
    /\ UNCHANGED histVars

\* Re-record button: rendered while !isRecording && blobUrl.
ReRecord ==
    /\ c.mounted /\ ~c.isRecording /\ c.blob # <<>>
    /\ Put(resetRecording(stop(H)))
    /\ UNCHANGED histVars

\* Mode buttons: enabled while !isRecording.
SetMode(m) ==
    /\ c.mounted /\ ~c.isRecording
    /\ m # c.mode
    /\ Put([H EXCEPT !.c.mode = m])
    /\ UNCHANGED histVars

\* A timeslice dataavailable event of a recording MediaRecorder.
MrData(s) ==
    /\ mr[s] = "recording"
    /\ Len(delivered[s]) < MaxChunks
    /\ \E data \in ChunkData(s) :
          /\ Put(ondataavailable(H, data))
          /\ delivered' = [delivered EXCEPT ![s] =
                             IF Len(data) > 0 THEN Append(@, data) ELSE @]
    /\ UNCHANGED <<artifacts, recTicks, pendingAtUnmount>>

\* The task queued by mr[s].stop(): the final dataavailable, then stop.
MrStopTask(s) ==
    /\ mrStopping[s]
    /\ \E data \in ChunkData(s) :
          LET h1 == ondataavailable(H, data)
          IN /\ Put([onstop(h1, s) EXCEPT !.mrStopping[s] = FALSE])
             /\ delivered' = [delivered EXCEPT ![s] =
                                IF Len(data) > 0 THEN Append(@, data) ELSE @]
             /\ artifacts' = [artifacts EXCEPT ![s] =
                                Append(@, onstopBlob(h1, s))]
    /\ UNCHANGED <<recTicks, pendingAtUnmount>>

\* The component unmounts (Back, or onDone after a save).
Unmount ==
    /\ c.mounted
    /\ Put(cleanup(H))
    /\ pendingAtUnmount' = {s \in Sessions : pc[s] = "gum"}
    /\ UNCHANGED <<delivered, artifacts, recTicks>>

Next ==
    \/ Start
    \/ \E s \in Sessions : GumResolve(s)
    \/ \E s \in Sessions : GumReject(s)
    \/ \E s \in Sessions : PlaySettled(s)
    \/ \E s \in Sessions : Tick(s)
    \/ Pause
    \/ Resume
    \/ Stop
    \/ ReRecord
    \/ \E m \in Modes : SetMode(m)
    \/ \E s \in Sessions : MrData(s)
    \/ \E s \in Sessions : MrStopTask(s)
    \/ Unmount

Spec == Init /\ [][Next]_vars

\* ------------------------------------------------------------ save actions
\* "Save to Room" button: rendered while !isRecording && blobUrl, disabled
\* while saving.
Save ==
    /\ c.mounted /\ ~c.isRecording /\ c.blob # <<>>
    /\ ~saving
    /\ nsave < MaxSaves
    /\ PutSave(saveCall(S, c))
    /\ UNCHANGED <<recAll, scanAll, envVars, ingestVars>>

\* uploadBytes resolved: getDownloadURL is awaited.
SaveUploadResolve ==
    /\ sv.pc = "upload"
    /\ PutSave([S EXCEPT !.sv.pc = "url"])
    /\ UNCHANGED <<recAll, scanAll, envVars, ingestVars>>

\* getDownloadURL resolved: addDoc is awaited.
SaveUrlResolve ==
    /\ sv.pc = "url"
    /\ PutSave([S EXCEPT !.sv.pc = "doc"])
    /\ UNCHANGED <<recAll, scanAll, envVars, ingestVars>>

\* addDoc resolved: onDone, which makes the App leave VOICE and so unmounts
\* the recorder, then the finally block.
SaveDocResolve ==
    /\ sv.pc = "doc"
    /\ PutSave(saveSucceeded(S, c.mounted))
    /\ IF c.mounted
       THEN /\ PutRec(cleanup(H))
            /\ pendingAtUnmount' = {s \in Sessions : pc[s] = "gum"}
            /\ UNCHANGED <<delivered, artifacts, recTicks>>
       ELSE UNCHANGED recAll
    /\ UNCHANGED <<scanAll, envVars, ingestVars>>

\* uploadBytes, getDownloadURL or addDoc rejected.
SaveReject ==
    /\ sv.pc \in {"upload", "url", "doc"}
    /\ PutSave(saveCatch(S, c.mounted))
    /\ UNCHANGED <<recAll, scanAll, envVars, ingestVars>>

\* The recorder with its save button.
SaveNext ==
    \/ Start
    \/ \E s \in Sessions : GumResolve(s)
    \/ \E s \in Sessions : GumReject(s)
    \/ \E s \in Sessions : PlaySettled(s)
    \/ \E s \in Sessions : Tick(s)
    \/ Pause
    \/ Resume
    \/ Stop
    \/ ReRecord
    \/ \E m \in Modes : SetMode(m)
    \/ \E s \in Sessions : MrData(s)
    \/ \E s \in Sessions : MrStopTask(s)
    \/ Unmount
    \/ Save
    \/ SaveUploadResolve
    \/ SaveUrlResolve
    \/ SaveDocResolve
    \/ SaveReject

SaveSpec == Init /\ [][SaveNext]_vars

\* -------------------------------------------------------- scanner actions
\* "Scan Space" button of HOME.
EnterScan ==
    /\ app.screen = "HOME"
    /\ nscan < MaxScans
    /\ PutA(scanStart(A))
    /\ UNCHANGED scanHist

\* "Back" button of SCAN: the screen changes and the effect cleanup runs.
LeaveScan ==
    /\ app.screen = "SCAN"
    /\ PutA([scanCleanup(A) EXCEPT !.app.screen = "HOME"])
    /\ cancelledIn' = [cancelledIn EXCEPT ![nscan] = apc[nscan]]
    /\ UNCHANGED found

\* The SCAN card (video and canvas) mounts once the screen is SCAN and
\* unmounts once it is not; the animated transition decides when.
ViewMount ==
    /\ app.screen = "SCAN" /\ ~app.view
    /\ PutA([A EXCEPT !.app.view = TRUE])
    /\ UNCHANGED scanHist

ViewUnmount ==
    /\ app.screen # "SCAN" /\ app.view
    /\ PutA([A EXCEPT !.app.view = FALSE])
    /\ UNCHANGED scanHist

ScanGumResolve(a) ==
    /\ apc[a] = "gum"
    /\ PutA(scanAcquired(A, a))
    /\ UNCHANGED scanHist

ScanGumReject(a) ==
    /\ apc[a] = "gum"
    /\ PutA(scanCatch(A, a))
    /\ UNCHANGED scanHist

ScanPlayResolve(a) ==
    /\ apc[a] = "play"
    /\ PutA(scanPlaying(A, a))
    /\ UNCHANGED scanHist

ScanPlayReject(a) ==
    /\ apc[a] = "play"
    /\ PutA(scanCatch(A, a))
    /\ UNCHANGED scanHist

\* An animation frame requested by activation a arrives.
LoopFrame(a) ==
    /\ raf[a]
    /\ \E result \in {"none", "throw"} \cup Payloads :
          /\ PutA(loop(A, a, result))
          /\ found' = [found EXCEPT ![a] =
                         IF app.view /\ result \in Payloads
                         THEN @ \o <<result>> ELSE @]
    /\ UNCHANGED cancelledIn

\* The 150 ms timeout of activation a fires.
RedirectTimeout(a) ==
    /\ timeout[a] # <<>>
    /\ PutA(redirect(A, a))
    /\ UNCHANGED scanHist

ScanNext ==
    \/ EnterScan
    \/ LeaveScan
    \/ ViewMount
    \/ ViewUnmount
    \/ \E a \in Scans : ScanGumResolve(a)
    \/ \E a \in Scans : ScanGumReject(a)
    \/ \E a \in Scans : ScanPlayResolve(a)
    \/ \E a \in Scans : ScanPlayReject(a)
    \/ \E a \in Scans : LoopFrame(a)
    \/ \E a \in Scans : RedirectTimeout(a)

ScanSpec == Init /\ [][ScanNext]_vars

\* Timers fire: a pending redirect timeout eventually runs.
ScanFairSpec == ScanSpec /\ \A a \in Scans : WF_vars(RedirectTimeout(a))

\* ------------------------------------------------------------ navigation
\* The App with the recorder mounted only while the screen is VOICE.  Both
\* components are followed through what acquires and releases a device:
\* the recorder through start(), stop() and its unmount, the scanner through
\* its acquisition, up to the request of its first frame, and its cleanup.
AppInit ==
    /\ c = [firstRender EXCEPT !.mounted = FALSE]
    /\ InitRest
    /\ runtime \in Runtimes

\* "Record" button of HOME: the screen becomes VOICE and AudioRecorder mounts.
EnterVoice ==
    /\ app.screen = "HOME"
    /\ c = [firstRender EXCEPT !.mounted = FALSE] /\ nstart = 0
    /\ c' = firstRender
    /\ app' = [app EXCEPT !.screen = "VOICE"]
    /\ UNCHANGED <<nstart, pc, cmode, cIsPaused, track, mr, mrStopping,
                   timer, alerts, histVars>>
    /\ UNCHANGED <<nscan, apc, atrack, raf, timeout, redirects, scanHist>>
    /\ UNCHANGED <<envVars, saveVars, ingestVars>>

\* onBack / onDone of the recorder: the screen becomes HOME and the
\* recorder unmounts.
LeaveVoice ==
    /\ app.screen = "VOICE" /\ c.mounted
    /\ PutRec(cleanup(H))
    /\ pendingAtUnmount' = {s \in Sessions : pc[s] = "gum"}
    /\ app' = [app EXCEPT !.screen = "HOME"]
    /\ UNCHANGED <<delivered, artifacts, recTicks>>
    /\ UNCHANGED <<nscan, apc, atrack, raf, timeout, redirects, scanHist>>
    /\ UNCHANGED <<envVars, saveVars, ingestVars>>

AppNext ==
    \/ EnterVoice
    \/ LeaveVoice
    \/ Start
    \/ \E s \in Sessions : GumResolve(s)
    \/ \E s \in Sessions : GumReject(s)
    \/ \E s \in Sessions : PlaySettled(s)
    \/ \E m \in Modes : SetMode(m)
    \/ Stop
    \/ EnterScan
    \/ LeaveScan
    \/ ViewMount
    \/ ViewUnmount
    \/ \E a \in Scans : ScanGumResolve(a)
    \/ \E a \in Scans : ScanGumReject(a)
    \/ \E a \in Scans : ScanPlayResolve(a)
    \/ \E a \in Scans : ScanPlayReject(a)

AppSpec == AppInit /\ [][AppNext]_vars

\* ------------------------------------------------------ codec negotiation
\* pickMimeType(kind) called on its own, on any runtime.
NegInit == InitProgram /\ runtime \in AllRuntimes

Negotiate(kind) ==
    /\ picked = <<>>
    /\ picked' = <<[kind |-> kind, type |-> pickMimeType(kind, runtime)]>>
    /\ UNCHANGED <<recAll, scanAll, runtime, saveVars, ingestVars>>

NegNext == \E kind \in Modes : Negotiate(kind)

NegSpec == NegInit /\ [][NegNext]_vars

\* ---------------------------------------------------------- ingestMyWebAR
\* Strings the function tests are sequences of one-character strings.
HttpPrefix == <<"h", "t", "t", "p", ":", "/", "/">>
HttpsPrefix == <<"h", "t", "t", "p", "s", ":", "/", "/">>

\* What a url of a request begins with, and what follows.
UrlHeads == {HttpPrefix, HttpsPrefix,
             <<"H", "T", "t", "P", "S", ":", "/", "/">>,
             <<"f", "t", "p", ":", "/", "/">>,
             <<"h", "t", "t", "p", ":", "/">>,
             <<" ", "h", "t", "t", "p", ":", "/", "/">>,
             <<>>}
UrlTails == {<<"a">>}
\* The urls of requests: the empty one, and a head followed by a tail.
Urls == {<<>>} \cup {hd \o tl : hd \in UrlHeads, tl \in UrlTails}

\* A request: its method and the roomId, url and title of req.body || {}.
\* <<>> is a field that is missing or the empty string (both are falsy).
\* thumbUrl and createdAt, which no decision reads, are left out.
RequestInputs == [method : {"GET", "POST"}, roomId : {<<>>, <<"r">>},
                  url : Urls, title : {<<>>, <<"t">>}]

\* The ingest side as one value; PutIngest writes it back.
F == [req |-> req, fpc |-> fpc, res |-> res, experiences |-> experiences,
      probe |-> probe, wrote |-> wrote]

PutIngest(x) ==
    /\ req' = x.req
    /\ fpc' = x.fpc
    /\ res' = x.res
    /\ experiences' = x.experiences
    /\ probe' = x.probe
    /\ wrote' = x.wrote
    /\ UNCHANGED <<recAll, scanAll, envVars, saveVars>>

\* !v
falsy(v) == v = <<>>

\* The lower-case form of a letter the pattern names; any other character
\* is compared as it is.
toLowerCase(ch) ==
    CASE ch = "H" -> "h"
      [] ch = "T" -> "t"
      [] ch = "P" -> "p"
      [] ch = "S" -> "s"
      [] OTHER -> ch

\* u begins with p.
startsWith(u, p) ==
    /\ Len(u) >= Len(p)
    /\ \A i \in 1..Len(p) : u[i] = p[i]

\* u begins with p, letters compared without regard to case.
startsWithIgnoreCase(u, p) ==
    /\ Len(u) >= Len(p)
    /\ \A i \in 1..Len(p) : toLowerCase(u[i]) = p[i]

\* The pattern without its ^ anchor: http:// or https:// anywhere in url.
httpPatternUnanchored(url) ==
    \E k \in 0..Len(url) :
        \/ startsWithIgnoreCase(SubSeq(url, k + 1, Len(url)), HttpPrefix)
        \/ startsWithIgnoreCase(SubSeq(url, k + 1, Len(url)), HttpsPrefix)

\* /^https?:\/\//i.test(url)
httpPattern(url) ==
    \/ startsWithIgnoreCase(url, HttpPrefix)
    \/ startsWithIgnoreCase(url, HttpsPrefix)

\* res.status(code).json(...)
respond(x, r, code) == [x EXCEPT !.res[r] = code, !.fpc[r] = "done"]

\* The handler of request r with input q, up to its first await.
ingestCall(x, r, q) ==
    LET x1 == [x EXCEPT !.req[r] = q]
    IN IF q.method # "POST" THEN respond(x1, r, 405)
       ELSE IF falsy(q.roomId) \/ falsy(q.url) THEN respond(x1, r, 400)
       ELSE IF ~httpPattern(q.url) THEN respond(x1, r, 400)
       ELSE [x1 EXCEPT !.fpc[r] = "head"]

\* fetch(url, {method: "HEAD"}).catch(() => null) settled: a response that
\* is ok, one that is not, or a rejection turned into null.  The last two
\* are logged; the handler goes on to the write.
ingestProbed(x, r, outcome) ==
    [x EXCEPT !.probe[r] = outcome, !.fpc[r] = "add"]

\* The document built from the body of request r; id is the id Firestore
\* gives it.
ingestDoc(x, r, id) ==
    [id |-> id,
     roomId |-> x.req[r].roomId,
     title |-> IF falsy(x.req[r].title)
               THEN <<"External AR">> ELSE x.req[r].title,
     externalUrl |-> x.req[r].url]

\* db.collection("experiences").add(doc) resolved, then the 200 response.
ingestAdded(x, r) ==
    LET id == Cardinality(x.experiences) + 1
    IN respond([x EXCEPT !.experiences = @ \cup {ingestDoc(x, r, id)},
                         !.wrote[r] = @ + 1], r, 200)

\* The catch block: anything thrown is answered with 500.
ingestCatch(x, r) == respond(x, r, 500)

\* A request reaches the function.
Request(r) ==
    /\ fpc[r] = "idle"
    /\ \E q \in RequestInputs : PutIngest(ingestCall(F, r, q))

HeadSettled(r) ==
    /\ fpc[r] = "head"
    /\ \E outcome \in {"ok", "notOk", "rejected"} :
          PutIngest(ingestProbed(F, r, outcome))

AddResolve(r) ==
    /\ fpc[r] = "add"
    /\ PutIngest(ingestAdded(F, r))

AddReject(r) ==
    /\ fpc[r] = "add"
    /\ PutIngest(ingestCatch(F, r))

IngestNext ==
    \/ \E r \in Requests : Request(r)
    \/ \E r \in Requests : HeadSettled(r)
    \/ \E r \in Requests : AddResolve(r)
    \/ \E r \in Requests : AddReject(r)

\* The function runs on a server: the browser of the recorder plays no part.
IngestInit == InitProgram /\ runtime = CHOOSE rt \in Runtimes : TRUE

IngestSpec == IngestInit /\ [][IngestNext]_vars

\* ========================================================== recorder claims
Live(s) == track[s] = "live"
MrActive(s) == mr[s] \in {"recording", "paused"}

\* C2: if the component unmounts while start() still awaits getUserMedia,
\* then nothing that invocation acquires or starts is alive after the
\* teardown: no live stream, no started MediaRecorder, no running interval.
C2_TeardownReleasesPendingAcquisition ==
    ~c.mounted =>
        \A s \in pendingAtUnmount : ~Live(s) /\ ~MrActive(s) /\ ~timer[s]

\* C4: while a session is recording or paused, seconds equals the number of
\* ticks that fired while it was Recording (ticks while Paused add nothing).
C4_ElapsedCountsRecordingTicks ==
    (c.mounted /\ c.isRecording) => c.seconds = recTicks

\* C5: one recorder never holds two live streams, two non-inactive
\* MediaRecorders or two running interval timers.
C5_AtMostOneActiveSession ==
    /\ Cardinality({s \in Sessions : Live(s)}) <= 1
    /\ Cardinality({s \in Sessions : MrActive(s)}) <= 1
    /\ Cardinality({s \in Sessions : timer[s]}) <= 1

\* C6: the payload of the artifact built when session s stops is the
\* concatenation, in arrival order, of exactly the non-empty chunks the
\* MediaRecorder of s delivered.
C6_ArtifactIsSessionChunksInOrder ==
    \A s \in Sessions :
        \A i \in 1..Len(artifacts[s]) :
            artifacts[s][i].data = Concat(delivered[s])

\* C8: a stop() from Recording or Paused stops every track of the stopped
\* session's stream and queues the finalisation (final chunk, then the
\* artifact) of its MediaRecorder.
C8_StopReleasesStreamAndFinalizes ==
    [][(c.mounted /\ c.isRecording /\ ~c'.isRecording)
         => /\ ~Live(c.mediaRecorderRef)'
            /\ mrStopping'[c.mediaRecorderRef]]_vars

\* The session is Stopped: not recording, and its artifact exists.
Stopped == c.mounted /\ ~c.isRecording /\ c.blob # <<>>

\* C9: stop() called again once Stopped raises nothing and changes nothing
\* (in particular the artifact is the same afterwards).
C9_StopIdempotentWhenStopped ==
    Stopped => (~stopRaises(H) /\ stop(H) = H)

\* C10: when getUserMedia rejects, the recorder is Idle afterwards (not
\* recording, not paused, no timer running, no stream held) and the error
\* was reported exactly once.
C10_AcquireFailureLeavesIdle ==
    [][\A s \in Sessions :
         (pc[s] = "gum" /\ pc'[s] = "failed" /\ track'[s] = "none")
           => /\ alerts'[s] = 1
              /\ ~c'.isRecording /\ ~c'.isPaused
              /\ c'.timerRef = 0 /\ c'.streamRef = 0
              /\ \A r \in Sessions : ~timer'[r] /\ ~Live(r)']_vars

\* =========================================================== scanner claims
\* C1: once the cleanup of an activation has run, that activation never
\* assigns window.location.href again.
C1_NoRedirectAfterCancel ==
    [][\A a \in Scans :
         cancelledIn[a] # "no" => redirects'[a] = redirects[a]]_vars

\* C3: when the cleanup ran while the activation awaited getUserMedia or
\* play(), then once that wait is over the stream the activation acquired is
\* stopped and no iteration of its loop is scheduled.
C3_CancelDuringAcquisitionReleases ==
    \A a \in Scans :
        (cancelledIn[a] \in {"gum", "play"} /\ apc[a] \notin {"gum", "play"})
          => atrack[a] # "live" /\ ~raf[a] /\ apc[a] # "loop"

\* What a decode leaves behind: every activation redirects at most once and
\* decodes at most once, a decoded payload is either waiting in the redirect
\* timeout or already assigned, and after the decode the tracks of the
\* activation's stream are stopped and no animation frame is requested.
C7_Safe ==
    \A a \in Scans :
        /\ Len(redirects[a]) <= 1
        /\ Len(found[a]) <= 1
        /\ timeout[a] \o redirects[a] = found[a]
        /\ found[a] # <<>> => atrack[a] = "ended" /\ ~raf[a]

\* C7: a successful decode stops the tracks of the activation's stream and
\* leaves no iteration scheduled, its payload is handed to
\* window.location.href exactly once (pending in the timeout until then, and
\* the timeout eventually fires), and no activation redirects twice or
\* without a decode.
C7_FirstDecodeRedirectsExactlyOnce ==
    /\ []C7_Safe
    /\ \A a \in Scans : (found[a] # <<>>) ~> (redirects[a] = found[a])

\* An activation that was never cancelled decoded a payload and redirected
\* to it.
C7_Witness ==
    \E a \in Scans : found[a] # <<>> /\ redirects[a] = found[a]
                     /\ cancelledIn[a] = "no"

\* ================================================= claims C11 .. C20
\* C11: when start() fails after getUserMedia resolved (the preview, the
\* MediaRecorder constructor or MediaRecorder.start threw), the stream that
\* invocation acquired is released: its tracks are stopped and the recorder
\* no longer holds it.
C11_FailedStartReleasesStream ==
    [][\A s \in Sessions :
         (pc[s] \in {"gum", "play"} /\ pc'[s] = "failed" /\ track'[s] # "none")
           => (track'[s] = "ended" /\ c'.streamRef # s)]_vars

\* C12: for every kind and every runtime, pickMimeType returns the first
\* candidate of that kind's list that the runtime reports as supported, and
\* "undefined" (the platform default) when it reports none.
C12_NegotiatorPicksFirstSupported ==
    \A i \in 1..Len(picked) :
        LET cs == candidates(picked[i].kind)
            sup == {j \in 1..Len(cs) : isTypeSupported(runtime, cs[j])}
        IN IF sup = {}
           THEN picked[i].type = "undefined"
           ELSE \E j \in sup : /\ picked[i].type = cs[j]
                                /\ \A k \in sup : j <= k

\* The negotiator skipped an unsupported first candidate and returned a
\* later, supported one while a still later one was supported as well.
C12_Witness ==
    /\ picked # <<>>
    /\ picked[1].kind = "video"
    /\ picked[1].type = "video/webm;codecs=vp8,opus"
    /\ "video/webm" \in runtime.supported

\* C13: whenever the recorder is neither Recording nor Paused (Idle, Stopped
\* or unmounted), no interval timer created by it is running.
C13_NoTimerOutsideSession ==
    ~(c.mounted /\ c.isRecording) => \A s \in Sessions : ~timer[s]

\* C14: once the cleanup of an activation of the SCAN effect has run, no
\* animation frame of that activation's loop is pending (so none runs and
\* the loop does not reschedule itself).
C14_NoIterationAfterCancel ==
    \A a \in Scans : cancelledIn[a] # "no" => ~raf[a]

\* C15: an activation that is scanning stays scanning until it decodes a
\* code: a frame whose decode throws does not end the loop.
C15_ThrowingFrameKeepsScanning ==
    [][\A a \in Scans :
         (apc[a] = "loop" /\ cancelledIn[a] = "no")
           => apc'[a] \in {"loop", "found"}]_vars

\* C16: pause() acts only from Recording: there it pauses the session's
\* MediaRecorder and sets isPaused, and it stops no track, keeps the stream
\* handle and keeps the accumulated chunks; in every other state of the
\* mounted recorder it changes nothing.
C16_PauseKeepsStreamAndChunks ==
    c.mounted =>
        LET h == pause(H)
        IN IF c.isRecording /\ ~c.isPaused
           THEN /\ h.c.isPaused /\ h.c.isRecording
                /\ h.mr[c.mediaRecorderRef] = "paused"
                /\ h.track = track
                /\ h.c.streamRef = c.streamRef
                /\ h.c.chunksRef = c.chunksRef
                /\ h.timer = timer
           ELSE h = H

\* The recorder was paused while it held a live stream and a chunk.
C16_Witness ==
    /\ c.mounted /\ c.isRecording /\ c.isPaused
    /\ c.streamRef # 0 /\ track[c.streamRef] = "live"
    /\ c.mediaRecorderRef # 0 /\ mr[c.mediaRecorderRef] = "paused"
    /\ c.chunksRef # <<>>

C17_ScanReleaseIsIdempotent ==
    \A a \in Scans :
        (atrack[a] = "ended" /\ app.streamRef = a)
          => scanCleanup(A).atrack = atrack

C18_ArtifactTypeIsNegotiatedType ==
    \A s \in Sessions :
        \A i \in 1..Len(artifacts[s]) :
            artifacts[s][i].type = pickMimeType(cmode[s], runtime)

\* C19: a session has exactly one artifact once its MediaRecorder was started
\* and stopped and its stop event was dispatched, and none before that or
\* when it was never started or never stopped; no session ever has two.
C19_OneArtifactPerStoppedSession ==
    \A s \in Sessions :
        Len(artifacts[s]) =
            IF pc[s] = "done" /\ mr[s] = "inactive" /\ ~mrStopping[s]
            THEN 1 ELSE 0

\* One session was stopped and has its artifact while another session of
\* the recorder, never stopped, has none.
C19_Witness ==
    \E s, r \in Sessions :
        /\ Len(artifacts[s]) = 1
        /\ pc[r] = "done" /\ mr[r] = "recording" /\ artifacts[r] = <<>>

\* C20: when getUserMedia of the current activation rejected, the activation
\* holds no stream, has no frame or redirect pending and has redirected
\* nowhere, and the badge does not read what it reads while the acquisition is
\* in progress.
C20_AcquireFailureIsReported ==
    \A a \in Scans :
        (a = nscan /\ app.screen = "SCAN" /\ apc[a] = "ended"
           /\ atrack[a] = "none")
          => /\ app.streamRef # a /\ ~raf[a]
             /\ timeout[a] = <<>> /\ redirects[a] = <<>>
             /\ cameraBadge(A) # "Camera: Requesting"

\* ================================================= claims C21 .. C30
\* C21: every step in which an invocation of start() brings the recorder
\* into Recording ends with seconds = 0 and an empty chunk buffer.
C21_StartResetsCounterAndBuffer ==
    [][\A s \in Sessions :
         (pc[s] \in {"gum", "play"} /\ pc'[s] = "done" /\ c'.mounted)
           => (c'.isRecording /\ c'.seconds = 0 /\ c'.chunksRef = <<>>)]_vars

\* A second session is recording with a zeroed counter and an empty buffer
\* after the first one had delivered a chunk.
C21_Witness ==
    /\ c.mounted /\ c.isRecording /\ c.mediaRecorderRef = 2
    /\ pc[2] = "done" /\ delivered[1] # <<>>
    /\ c.seconds = 0 /\ c.chunksRef = <<>>

\* resume() acts only from Paused and returns the session to Recording,
\* leaving the interval and the counter as they are.
C22_ResumeEffect ==
    c.mounted =>
        LET h == resume(H)
        IN IF c.isRecording /\ c.isPaused
           THEN /\ ~h.c.isPaused /\ h.c.isRecording
                /\ h.mr[c.mediaRecorderRef] = "recording"
                /\ h.timer = timer /\ h.c.seconds = c.seconds
           ELSE h = H

\* While the recorder is Recording or Paused exactly one interval runs.
C22_OneTickSource ==
    (c.mounted /\ c.isRecording) => Cardinality({s \in Sessions : timer[s]}) = 1

\* A tick raises seconds by at most 1, and by exactly 1 in Recording.
C22_TickEffect ==
    \A s \in Sessions :
        (c.mounted /\ timer[s]) =>
            LET h == tick(H, s)
            IN /\ h.c.seconds <= c.seconds + 1
               /\ (c.isRecording /\ ~c.isPaused) => h.c.seconds = c.seconds + 1

\* C22: resume() acts only from Paused and returns the session to
\* Recording; while the recorder is Recording or Paused exactly one interval
\* drives the counter; a tick never raises seconds by more than 1 and every
\* tick that falls in Recording raises it by exactly 1.
C22_ResumeKeepsOneTickSource ==
    C22_ResumeEffect /\ C22_OneTickSource /\ C22_TickEffect

\* What the Re-record button does to the state it is pressed in.
Discarded == resetRecording(stop(H))

\* C23: Re-record pressed in Stopped clears the artifact and the counter and
\* leaves the recorder Idle: not recording, not paused, Start rendered, no
\* stream held by the recorder (none referenced, none of its streams live)
\* and no interval running.
C23_DiscardReturnsToIdle ==
    Stopped =>
        /\ Discarded.c.blob = <<>> /\ Discarded.c.seconds = 0
        /\ ~Discarded.c.isRecording /\ ~Discarded.c.isPaused
        /\ Discarded.c.streamRef = 0
        /\ \A s \in Sessions :
              Discarded.track[s] # "live" /\ ~Discarded.timer[s]

\* C24: a dataavailable event with no data or with data of size 0 leaves the
\* chunk buffer (and everything else) as it is, and the buffer never holds a
\* chunk of length 0.
C24_EmptyChunkIgnored ==
    /\ ondataavailable(H, <<>>) = H
    /\ \A s \in Sessions : \A data \in ChunkData(s) :
          \A i \in 1..Len(ondataavailable(H, data).c.chunksRef) :
              Len(ondataavailable(H, data).c.chunksRef[i]) > 0

\* A recording MediaRecorder, which may fire an empty dataavailable event,
\* while the buffer already holds a chunk.
C24_Witness ==
    /\ c.chunksRef # <<>>
    /\ c.mediaRecorderRef # 0 /\ mr[c.mediaRecorderRef] = "recording"
    /\ <<>> \in ChunkData(c.mediaRecorderRef)

\* C25: a chunk is added to the buffer only when the MediaRecorder that
\* delivered it is the one of the current session (the one the buffer was
\* reset for), recording or delivering its final chunk.
C25_OnlyOwnerAppends ==
    [][\A s \in Sessions :
         (delivered'[s] # delivered[s] /\ c'.chunksRef # c.chunksRef)
           => c.mediaRecorderRef = s]_vars

\* C26: once the recorder has an artifact, its payload and type stay what
\* they are until the artifact is discarded or start() is called.
C26_ArtifactImmutable ==
    [][(c.blob # <<>> /\ c'.blob # c.blob) => c'.blob = <<>>]_vars

\* C27: a scanning activation that was not cancelled keeps one frame
\* requested through every step that decodes nothing, so its loop ends only
\* by a decode or by the cleanup.
C27_LoopRunsUntilFoundOrCancel ==
    [][\A a \in Scans :
         (apc[a] = "loop" /\ raf[a] /\ cancelledIn'[a] = "no"
            /\ found'[a] = found[a])
           => raf'[a]]_vars

\* C29: the kind of a session is the mode captured when start() was called:
\* the Blob of session s has a video type exactly when that mode was video,
\* and whenever the Blob of session s is handed to storage, the kind it is
\* saved under is that mode.
C29_KindFixedForSession ==
    \A s \in Sessions :
        /\ \A i \in 1..Len(artifacts[s]) :
              startsWithVideo(artifacts[s][i].type) <=> cmode[s] = "video"
        /\ \A r \in sunk :
              (\E i \in 1..Len(artifacts[s]) : artifacts[s][i] = r.blob)
                => r.kind = cmode[s]

\* C30: a step in which save() ends without onDone reports the failure
\* once, leaves the artifact as it is and (on a mounted recorder) sets saving
\* back to false; onDone is called only when addDoc resolved, and never
\* together with a failure report.
C30_SaveFailureKeepsArtifact ==
    [][/\ (sv.pc # "idle" /\ sv'.pc = "idle" /\ dones' = dones)
            => /\ saveAlerts' = saveAlerts + 1
               /\ c'.blob = c.blob
               /\ c.mounted => ~saving'
       /\ dones' # dones
            => (sv.pc = "doc" /\ dones' = dones + 1
                  /\ saveAlerts' = saveAlerts)]_vars

\* A save failed, was retried, and the retry called onDone.
C30_Witness ==
    nsave = 2 /\ saveAlerts = 1 /\ dones = 1 /\ sv.pc = "idle"

\* C28: the scanner never holds a live camera stream while the recorder
\* holds a live camera stream (a stream acquired for a video session).
C28_ScannerAndVideoRecorderExclusive ==
    ~ (/\ \E a \in Scans : atrack[a] = "live"
       /\ \E s \in Sessions : track[s] = "live" /\ cmode[s] = "video")

\* The recorder has no session and no artifact.
Idle == c.mounted /\ ~c.isRecording /\ c.blob = <<>>

\* C31: on a mounted recorder, pause() called outside Recording, resume()
\* called outside Paused and stop() called from Idle each raise an error to
\* the caller and leave the recorder (state, counter, chunks, stream) as it
\* was.
C31_InvalidCallIsReported ==
    c.mounted =>
        /\ ~(c.isRecording /\ ~c.isPaused)
              => (pauseRaises(H) /\ pause(H) = H)
        /\ ~(c.isRecording /\ c.isPaused)
              => (resumeRaises(H) /\ resume(H) = H)
        /\ Idle => (stopRaises(H) /\ stop(H) = H)

\* The state of the MediaRecorder in mediaRecorderRef ("none" when null).
curMrState == IF c.mediaRecorderRef = 0 THEN "none" ELSE mr[c.mediaRecorderRef]

\* C32: on a mounted recorder the displayed flags agree with the recorder:
\* isPaused implies isRecording; isRecording without isPaused holds exactly
\* when the current MediaRecorder is recording; isPaused holds exactly when
\* it is paused; and while isRecording is false no MediaRecorder of the
\* component is recording or paused and no live stream is held.
C32_FlagsAgreeWithRecorder ==
    c.mounted =>
        /\ c.isPaused => c.isRecording
        /\ (c.isRecording /\ ~c.isPaused) <=> curMrState = "recording"
        /\ c.isPaused <=> curMrState = "paused"
        /\ ~c.isRecording =>
              \A s \in Sessions : ~MrActive(s) /\ ~Live(s)

\* The body of request r passes the checks of the handler, the url being
\* compared with the two prefixes as written (lower case).
ValidAsWritten(r) ==
    /\ req[r].method = "POST"
    /\ req[r].roomId # <<>> /\ req[r].url # <<>>
    /\ startsWith(req[r].url, HttpPrefix) \/ startsWith(req[r].url, HttpsPrefix)

\* The same, the letters of the prefix compared without regard to case.
ValidIgnoringCase(r) ==
    /\ req[r].method = "POST"
    /\ req[r].roomId # <<>> /\ req[r].url # <<>>
    /\ \/ startsWithIgnoreCase(req[r].url, HttpPrefix)
       \/ startsWithIgnoreCase(req[r].url, HttpsPrefix)

\* What C33 says of every request that arrived, given what a valid request
\* is: a
\* request adds a document only when it is valid; a request answered 405
\* is not a POST, one answered 400 is a POST that is not valid, and both
\* add nothing; a valid request whose write did not fail is answered 200
\* whatever the HEAD probe gave; a request answered 200 added exactly one
\* document; and the collection holds one document per such request.
IngestWritesOnlyValid(Valid(_)) ==
    /\ \A r \in Requests : fpc[r] # "idle" =>
          /\ wrote[r] > 0 => Valid(r)
          /\ res[r] = 405 => (req[r].method # "POST" /\ wrote[r] = 0)
          /\ res[r] = 400
                => (req[r].method = "POST" /\ ~Valid(r) /\ wrote[r] = 0)
          /\ (fpc[r] = "done" /\ req[r].method # "POST") => res[r] = 405
          /\ (fpc[r] = "done" /\ req[r].method = "POST" /\ ~Valid(r))
                => res[r] = 400
          /\ probe[r] # "none" => fpc[r] \in {"add", "done"}
          /\ (fpc[r] = "done" /\ Valid(r) /\ res[r] # 500)
                => (res[r] = 200 /\ wrote[r] = 1)
          /\ res[r] = 200 => wrote[r] = 1
          /\ wrote[r] <= 1
    /\ Cardinality(experiences)
         = Cardinality({r \in Requests : res[r] = 200})

====
